---- MODULE Spec2Model ----
(***************************************************************************)
(* Verification model of the Oceanside front end.                          *)
(*                                                                         *)
(* Part A  StudioRoomPage (src/unnamed/part_003, lines 607-1569): the      *)
(*         host's countdown, chunk recorder loop and per-chunk upload.     *)
(*         The page is a React function component: every handler reads the *)
(*         isRecording of the render that created it, so each socket,      *)
(*         countdown and recorder carries that captured value ("cap").     *)
(* Part B  SessionPage with WebRTCManager and WebSocketManager             *)
(*         (src/frontend/src/app/session/[sessionId]/page.tsx,             *)
(*         src/frontend/src/lib/webrtc.ts, websocket.ts): two clients and  *)
(*         the signaling hub of spec section 4.1 between them.             *)
(* Part C  the Socket.IO signaling of StudioRoomPage (host) and of         *)
(*         GuestJoinPage (src/frontend/src/app/join/[token]/page.tsx):     *)
(*         one host, two guest pages opened with the same invite link.     *)
(* Part E  WebSocketManager (src/frontend/src/lib/websocket.ts) on its own:  *)
(*         connect, disconnect, reconnect with backoff, heartbeat, send.     *)
(* Part D  the recorder of GuestJoinPage: one MediaRecorder with a 1000 ms   *)
(*         timeslice whose blobs are uploaded in a loop when it stops.      *)
(***************************************************************************)
EXTENDS Integers, Sequences, FiniteSets, TLC

\* ------------------------------------------------------------ constants
CHUNK_DURATION_MS == 5000
RESTART_DELAY_MS == 300
COUNTDOWN_TICK_MS == 1000
COMPLETION_DELAY_MS == 1000
USES_REMAINING_DEFAULT == 1   \* guest_tokens.uses_remaining
maxReconnectAttempts == 5     \* WebSocketManager.maxReconnectAttempts

\* the clock advances by at most one countdown period at once
TickMs == COUNTDOWN_TICK_MS

\* ------------------------------------------------------------ bounds
MaxNow == 12000         \* the clock stops advancing here
MaxEvents == 5          \* initializeRoom runs, start-recording events and
                        \* stopRecording calls, together
MaxRecorders == 3       \* MediaRecorder instances created
MaxJoins == 2           \* joins of the session clients
MaxReopens == 1         \* sockets that drop and reconnect
MaxPcs == 4             \* RTCPeerConnection objects created
MaxCands == 1           \* connections that gather an ICE candidate
MaxGuestStarts == 2     \* start-recording events the guest page receives
MaxBlobs == 3           \* non-empty blobs the guest's recorders deliver
MaxRetries == 1         \* clicks on the retry button of the video tile
MaxSockets == 6         \* WebSocket objects one manager creates
MaxSends == 3           \* sendMessage calls on one manager
MaxConnectCalls == 2    \* connect() calls made by the page

\* remaining delay (startTime - Date.now()) when start-recording is received
Delays == {0, 1500}

NoStream == 0
NoRef == 0
NoTime == 0 - 1         \* a null time ref; Date.now() itself is never falsy

VARIABLES
  now,                          \* Date.now(), ms
  isRecording,                  \* React state, latest value
  rendered,                     \* isRecording of the last committed render
  localStreamRef,               \* stream id or NoStream
  liveStreams,                  \* streams whose tracks are not stopped
  nStreams,                     \* streams acquired so far
  sockets,                      \* Seq of [cap, connected]
  socketRef,                    \* index into sockets or NoRef
  recorders,                    \* Seq of MediaRecorder instances
  mediaRecorderRef,             \* index into recorders or NoRef
  recordingTimerRef,            \* recorder whose slice timer handle is held
  restartTimers,                \* pending setTimeout(startNewRecorder, 300)
  countdowns,                   \* pending setInterval countdowns
  chunkIndexRef,
  recordingStartTimeRef,
  currentChunkStartTimeRef,
  chunkRecordingStartTimeRef,
  uploads,                      \* transfer units handed to uploadChunkImmediately
  completionTimers,             \* pending "Recording completed" toasts
  hist,                         \* observation record (events emitted, counters)
  \* ---- part B
  members,                      \* hub: participants of the room
  wsOpen,                       \* client -> its WebSocket is OPEN
  rtcManager,                   \* client -> rtcManager.current exists
  localStream,                  \* client -> WebRTCManager.localStream is set
  peerConnections,              \* client -> remote id -> index into pcs, or NoRef
  pcs,                          \* every RTCPeerConnection created so far
  inbox,                        \* client -> messages the hub has sent it, FIFO
  rtcObs,                       \* observation record of part B
  \* ---- part C
  sio,                          \* page -> its socket, refs and RTCPeerConnection
  sioCalls,                     \* createOffer / handleOffer calls at an await
  hubRooms,                     \* hub: page -> the room its socket joined
  sioInbox,                     \* page -> events the hub has sent it, FIFO
  sioObs,                       \* observation record of part C
  \* ---- part D
  guest,                        \* the guest page: state and refs
  guestRecorders,               \* MediaRecorder instances of the guest page
  chunkArrays,                  \* arrays recordingChunksRef has pointed to: their lengths
  uploadLoops,                  \* calls of uploadRecordingChunks
  guestUploads,                 \* transfer units the guest page has posted
  \* ---- part E
  wsm,                          \* the fields of one WebSocketManager
  wsSockets,                    \* readyState of every WebSocket it created
  wsWire,                       \* messages handed to WebSocket.send, in order
  wsRelayed,                    \* how many of them the hub has relayed
  wsObs                         \* observation record of part E

recVars == <<now, isRecording, rendered, localStreamRef, liveStreams, nStreams,
             sockets, socketRef, recorders, mediaRecorderRef, recordingTimerRef,
             restartTimers, countdowns, chunkIndexRef, recordingStartTimeRef,
             currentChunkStartTimeRef, chunkRecordingStartTimeRef, uploads,
             completionTimers, hist>>

rtcVars == <<members, wsOpen, rtcManager, localStream, peerConnections, pcs,
             inbox, rtcObs>>

sioVars == <<sio, sioCalls, hubRooms, sioInbox, sioObs>>

guestVars == <<guest, guestRecorders, chunkArrays, uploadLoops, guestUploads>>

wsmVars == <<wsm, wsSockets, wsWire, wsRelayed, wsObs>>

vars == <<recVars, rtcVars, sioVars, guestVars, wsmVars>>

\* ------------------------------------------------------------ helpers
Min(a, b) == IF a <= b THEN a ELSE b

SetMin(S) == CHOOSE x \in S : \A y \in S : x <= y

\* events delivered to the studio room page so far
Events == hist.inits + hist.starts + hist.stops + hist.retries

\* due times of every armed timer
Dues ==
  {recorders[r].due : r \in {x \in DOMAIN recorders : recorders[x].timer}}
    \cup {t.due : t \in restartTimers}
    \cup {c.due : c \in countdowns}
    \cup {t.due : t \in completionTimers}

\* a queued task (React commit, MediaRecorder events) runs before time passes
TaskQueued ==
  \/ rendered # isRecording
  \/ \E r \in DOMAIN recorders : recorders[r].pending

InitRec ==
  /\ now = 0
  /\ isRecording = FALSE
  /\ rendered = FALSE
  /\ localStreamRef = NoStream
  /\ liveStreams = {}
  /\ nStreams = 0
  /\ sockets = <<>>
  /\ socketRef = NoRef
  /\ recorders = <<>>
  /\ mediaRecorderRef = NoRef
  /\ recordingTimerRef = NoRef
  /\ restartTimers = {}
  /\ countdowns = {}
  /\ chunkIndexRef = 0
  /\ recordingStartTimeRef = NoTime
  /\ currentChunkStartTimeRef = 0
  /\ chunkRecordingStartTimeRef = NoTime
  /\ uploads = <<>>
  /\ completionTimers = {}
  /\ hist = [inits |-> 0,            \* runs of initializeRoom
             starts |-> 0,           \* start-recording events received
             stops |-> 0,            \* calls of stopRecording
             run |-> 0,              \* countdowns that reached zero
             streamAtStart |-> FALSE, \* the last of them found a stream
             session |-> 0,          \* resets of the chunk refs (part_003:1053)
             runStops |-> 0,         \* stopRecording calls since the last start
             runStoppedEmits |-> 0,  \* recording_stopped emitted since then
             completions |-> 0,      \* completion toasts shown
             dropped |-> 0,          \* slices that ended without a segment
             retries |-> 0,          \* runs of retryVideoConnection
             stopStarts |-> 0,       \* start-recording events seen when stopRecording ran last
             expiries |-> {}]        \* countdown ends: [late, captured], late = at - startTime

Participants == {"A", "B"}

InitRtc ==
  /\ members = {}
  /\ wsOpen = [p \in Participants |-> FALSE]
  /\ rtcManager = [p \in Participants |-> FALSE]
  /\ localStream = [p \in Participants |-> FALSE]
  /\ peerConnections = [p \in Participants |-> [q \in Participants |-> NoRef]]
  /\ pcs = <<>>
  /\ inbox = [p \in Participants |-> <<>>]
  /\ rtcObs = [joins |-> 0,                      \* joins so far
               drops |-> 0,                      \* sockets dropped so far
               stamp |-> [p \in Participants |-> 0], \* when p joined last
               offers |-> <<>>,                    \* offers handed to the socket
               dupConnect |-> 0,                   \* connectToParticipant calls that found an entry
               candsDiscarded |-> 0,               \* candidates that found no connection
               answers |-> {},                     \* what became of the answers received
               recleaned |-> {}]                   \* pages unmounted after they had left

Guests == {"g1", "g2"}
Ends == {"host"} \cup Guests
HostRooms == {"R1", "default-room"}    \* the roomId of the host's URL
NoRoom == "none"
GuestToken(g) == "T"                   \* params.token: both pages, one link

\* what the guest_tokens row of the link says when a page is submitted
\* (expires_at, uses_remaining, is_active)
TokenStates == {"valid", "expired", "exhausted", "inactive"}

InitSio ==
  /\ sio = [e \in Ends |->
              [socket |-> "none", room |-> NoRoom, roomId |-> "", stream |-> FALSE,
               pc |-> FALSE, sig |-> "stable", haveLocal |-> FALSE,
               haveRemote |-> FALSE, gathered |-> 0, applied |-> 0,
               isConnected |-> FALSE]]
  /\ sioCalls = [e \in Ends |-> <<>>]
  /\ hubRooms = [e \in Ends |-> NoRoom]
  /\ sioInbox = [e \in Ends |-> <<>>]
  /\ sioObs = [order |-> <<>>,      \* pages in the order the hub saw them join
               invalid |-> {}]      \* pages that went on with a token that was not valid

InitGuest ==
  /\ guest = [isConnected |-> FALSE, mounted |-> TRUE, stream |-> FALSE,
              isRecording |-> FALSE, starts |-> 0, stopRecs |-> 0]
  /\ guestRecorders = <<>>
  /\ chunkArrays = <<0>>        \* useRef<Blob[]>([])
  /\ uploadLoops = <<>>
  /\ guestUploads = <<>>

InitWsm ==
  /\ wsm = [ws |-> NoRef, reconnectAttempts |-> 0, isManualClose |-> FALSE,
            heartbeatInterval |-> FALSE,  \* a handle is held
            intervals |-> 0,              \* setInterval timers that are live
            timers |-> 0]                 \* reconnect timeouts pending
  /\ wsSockets = <<>>
  /\ wsWire = <<>>
  /\ wsRelayed = 0
  /\ wsObs = [connectCalls |-> 0,       \* connect() calls of the page
              sends |-> 0,              \* sendMessage calls
              refused |-> {},           \* messages sendMessage refused
              sinceOpen |-> 0,          \* attemptReconnect calls since the last onopen
              observed |-> <<>>]        \* what a recipient has observed

Init == InitRec /\ InitRtc /\ InitSio /\ InitGuest /\ InitWsm

\* time passes up to the next timer due, at most TickMs at once
Tick ==
  /\ ~TaskQueued
  /\ now < MaxNow
  /\ Dues # {} \/ \E r \in DOMAIN recorders : recorders[r].state = "recording"
  /\ \A d \in Dues : now < d
  /\ now' = IF Dues = {} THEN now + TickMs ELSE Min(now + TickMs, SetMin(Dues))
  /\ UNCHANGED <<isRecording, rendered, localStreamRef, liveStreams, nStreams,
                 sockets, socketRef, recorders, mediaRecorderRef, recordingTimerRef,
                 restartTimers, countdowns, chunkIndexRef, recordingStartTimeRef,
                 currentChunkStartTimeRef, chunkRecordingStartTimeRef, uploads,
                 completionTimers, hist>>

\* ------------------------------------------------------------ recorder
\* part_003:1065 — the guard of startNewRecorder, read from the closure
CanRecord(cap) == cap /\ localStreamRef # NoStream

\* the model creates at most MaxRecorders MediaRecorder instances
RoomFor(cap) == CanRecord(cap) => Len(recorders) < MaxRecorders

NewRecorder(cap) ==
  [state |-> "recording", cap |-> cap, stream |-> localStreamRef,
   pending |-> FALSE, timer |-> TRUE, due |-> now + CHUNK_DURATION_MS]

\* MediaRecorder.stop(): inactive at once, dataavailable and stop are queued
StopRecorder(recs, r) ==
  IF r # NoRef /\ recs[r].state = "recording"
  THEN [recs EXCEPT ![r].state = "inactive", ![r].pending = TRUE]
  ELSE recs

\* clearTimeout(recordingTimerRef.current)
ClearSliceTimer(recs) ==
  IF recordingTimerRef # NoRef
  THEN [recs EXCEPT ![recordingTimerRef].timer = FALSE]
  ELSE recs

startNewRecorder(cap, recs) ==
  IF CanRecord(cap)
  THEN /\ recorders' = Append(recs, NewRecorder(cap))
       /\ mediaRecorderRef' = Len(recs) + 1
       /\ recordingTimerRef' = Len(recs) + 1
       /\ chunkRecordingStartTimeRef' = now
  ELSE /\ recorders' = recs
       /\ UNCHANGED <<mediaRecorderRef, recordingTimerRef, chunkRecordingStartTimeRef>>

startLocalRecording(cap) ==
  IF localStreamRef = NoStream
  THEN UNCHANGED <<chunkIndexRef, recordingStartTimeRef, currentChunkStartTimeRef,
                   recorders, mediaRecorderRef, recordingTimerRef,
                   chunkRecordingStartTimeRef>>
  ELSE /\ chunkIndexRef' = 0
       /\ recordingStartTimeRef' = now
       /\ currentChunkStartTimeRef' = 0
       /\ startNewRecorder(cap, recorders)

\* the end of the countdown: setIsRecording(true); startLocalRecording()
Expire(cap, h) ==
  /\ RoomFor(cap)
  /\ isRecording' = TRUE
  /\ startLocalRecording(cap)
  /\ hist' = [h EXCEPT !.run = @ + 1,
                       !.streamAtStart = (localStreamRef # NoStream),
                       !.session = IF localStreamRef # NoStream THEN @ + 1 ELSE @,
                       !.runStops = 0, !.runStoppedEmits = 0]

CeilDiv(a, b) == (a + b - 1) \div b

\* socket.on('start-recording') -> startRecordingCountdown(startTime)
OnStartRecording(s, d) ==
  /\ sockets[s].connected
  /\ Events < MaxEvents
  /\ LET h == [hist EXCEPT !.starts = @ + 1] IN
     IF d > 0
     THEN /\ countdowns' = countdowns \cup
               {[id |-> hist.starts + 1, startTime |-> now + d,
                 timeLeft |-> CeilDiv(d, 1000), due |-> now + COUNTDOWN_TICK_MS,
                 cap |-> sockets[s].cap]}
          /\ hist' = h
          /\ UNCHANGED <<isRecording, chunkIndexRef, recordingStartTimeRef,
                         currentChunkStartTimeRef, recorders, mediaRecorderRef,
                         recordingTimerRef, chunkRecordingStartTimeRef>>
     ELSE /\ Expire(sockets[s].cap, h)
          /\ UNCHANGED countdowns
  /\ UNCHANGED <<now, rendered, localStreamRef, liveStreams, nStreams, sockets,
                 socketRef, restartTimers, uploads, completionTimers>>

\* one firing of the countdown's setInterval callback
CountdownTick(c) ==
  /\ c \in countdowns
  /\ now >= c.due
  /\ IF c.timeLeft - 1 <= 0
     THEN /\ countdowns' = countdowns \ {c}
          /\ Expire(c.cap,
                    [hist EXCEPT !.expiries = @ \cup
                       {[late |-> now - c.startTime,
                         captured |-> CanRecord(c.cap)]}])
     ELSE /\ countdowns' = (countdowns \ {c}) \cup
               {[c EXCEPT !.timeLeft = @ - 1, !.due = @ + COUNTDOWN_TICK_MS]}
          /\ UNCHANGED <<isRecording, chunkIndexRef, recordingStartTimeRef,
                         currentChunkStartTimeRef, recorders, mediaRecorderRef,
                         recordingTimerRef, chunkRecordingStartTimeRef, hist>>
  /\ UNCHANGED <<now, rendered, localStreamRef, liveStreams, nStreams, sockets,
                 socketRef, restartTimers, uploads, completionTimers>>

\* the 5000 ms timer of recorder r
SliceTimerFires(r) ==
  /\ r \in DOMAIN recorders
  /\ recorders[r].timer
  /\ now >= recorders[r].due
  /\ recorders' =
       [(IF recorders[r].cap THEN StopRecorder(recorders, r) ELSE recorders)
          EXCEPT ![r].timer = FALSE]
  /\ UNCHANGED <<now, isRecording, rendered, localStreamRef, liveStreams, nStreams,
                 sockets, socketRef, mediaRecorderRef, recordingTimerRef,
                 restartTimers, countdowns, chunkIndexRef, recordingStartTimeRef,
                 currentChunkStartTimeRef, chunkRecordingStartTimeRef, uploads,
                 completionTimers, hist>>

\* uploadChunkImmediately up to its await: the transfer unit that is posted
TransferUnit(startTime, endTime) ==
  [session |-> hist.session, run |-> hist.run, chunk_index |-> chunkIndexRef + 1,
   start_ms |-> startTime, end_ms |-> endTime,
   status |-> "pending", attempts |-> 0,
   reported |-> 0,   \* the index the failure toast named, 0: no toast
   \* recording_stopped had been emitted for the run when it was handed over
   afterStopped |-> hist.runStoppedEmits > 0]

\* ondataavailable accepts the blob (part_003:1109)
Usable(hasData) ==
  hasData /\ recordingStartTimeRef # NoTime /\ chunkRecordingStartTimeRef # NoTime

\* mediaRecorder.ondataavailable, had it counted the empty slices too
ondataavailable_gap(hasData) ==
  IF Usable(hasData)
  THEN LET startTime == currentChunkStartTimeRef
           endTime == startTime + (now - chunkRecordingStartTimeRef)
       IN /\ chunkIndexRef' = chunkIndexRef + 1
          /\ currentChunkStartTimeRef' = endTime
          /\ uploads' = Append(uploads, TransferUnit(startTime, endTime))
  ELSE /\ chunkIndexRef' = chunkIndexRef + 1
       /\ UNCHANGED <<currentChunkStartTimeRef, uploads>>

\* mediaRecorder.ondataavailable
ondataavailable(hasData) ==
  IF Usable(hasData)
  THEN LET startTime == currentChunkStartTimeRef
           endTime == startTime + (now - chunkRecordingStartTimeRef)
       IN /\ chunkIndexRef' = chunkIndexRef + 1
          /\ currentChunkStartTimeRef' = endTime
          /\ uploads' = Append(uploads, TransferUnit(startTime, endTime))
  ELSE UNCHANGED <<chunkIndexRef, currentChunkStartTimeRef, uploads>>

\* mediaRecorder.onstop
onstop(r) ==
  IF recorders[r].cap
  THEN restartTimers' = restartTimers \cup
         {[by |-> r, due |-> now + RESTART_DELAY_MS, cap |-> recorders[r].cap]}
  ELSE UNCHANGED restartTimers

\* the task MediaRecorder queues when it stops: dataavailable, then stop
StopTask(r, hasData) ==
  /\ r \in DOMAIN recorders
  /\ recorders[r].pending
  /\ ondataavailable(hasData)
  /\ onstop(r)
  /\ recorders' = [recorders EXCEPT ![r].pending = FALSE]
  /\ hist' = [hist EXCEPT !.dropped = IF Usable(hasData) THEN @ ELSE @ + 1]
  /\ UNCHANGED <<now, isRecording, rendered, localStreamRef, liveStreams, nStreams,
                 sockets, socketRef, mediaRecorderRef, recordingTimerRef,
                 countdowns, recordingStartTimeRef, chunkRecordingStartTimeRef,
                 completionTimers>>

\* the stop task, had the handler awaited the uploads before going on
RecorderStopped_awaitsUpload(r, hasData) ==
  /\ \A i \in DOMAIN uploads : uploads[i].status = "uploaded"
  /\ StopTask(r, hasData)

\* ondataavailable and onstop run as soon as the recorder has stopped;
\* uploadChunkImmediately is called without await (part_003:1128)
RecorderStopped(r, hasData) == StopTask(r, hasData)

\* the 300 ms timer set by onstop
RestartTimerFires(t) ==
  /\ t \in restartTimers
  /\ now >= t.due
  /\ RoomFor(t.cap)
  /\ restartTimers' = restartTimers \ {t}
  /\ startNewRecorder(t.cap, recorders)
  /\ UNCHANGED <<now, isRecording, rendered, localStreamRef, liveStreams, nStreams,
                 sockets, socketRef, countdowns, chunkIndexRef,
                 recordingStartTimeRef, currentChunkStartTimeRef, uploads,
                 completionTimers, hist>>

\* RecordingAPI.uploadChunk settles: one POST, no second attempt; the catch
\* names chunkIndexRef.current as it is then
UploadSettles(i, ok) ==
  /\ i \in DOMAIN uploads
  /\ uploads[i].status = "pending"
  /\ uploads' = [uploads EXCEPT ![i].status = IF ok THEN "uploaded" ELSE "failed",
                                ![i].attempts = @ + 1,
                                ![i].reported = IF ok THEN @ ELSE chunkIndexRef]
  /\ UNCHANGED <<now, isRecording, rendered, localStreamRef, liveStreams, nStreams,
                 sockets, socketRef, recorders, mediaRecorderRef, recordingTimerRef,
                 restartTimers, countdowns, chunkIndexRef, recordingStartTimeRef,
                 currentChunkStartTimeRef, chunkRecordingStartTimeRef,
                 completionTimers, hist>>

stopRecording ==
  /\ Events < MaxEvents
  /\ isRecording' = FALSE
  /\ recordingTimerRef' = NoRef
  /\ recorders' = StopRecorder(ClearSliceTimer(recorders), mediaRecorderRef)
  /\ LET emit == IF socketRef # NoRef THEN 1 ELSE 0 IN
     hist' = [hist EXCEPT !.stops = @ + 1, !.runStops = @ + 1,
                          !.runStoppedEmits = @ + emit,
                          !.stopStarts = hist.starts]
  /\ completionTimers' = completionTimers \cup
       {[id |-> hist.stops + 1, run |-> hist.run, due |-> now + COMPLETION_DELAY_MS]}
  /\ UNCHANGED <<now, rendered, localStreamRef, liveStreams, nStreams, sockets,
                 socketRef, mediaRecorderRef, restartTimers, countdowns,
                 chunkIndexRef, recordingStartTimeRef, currentChunkStartTimeRef,
                 chunkRecordingStartTimeRef, uploads>>

\* the Record/Stop button of a render that shows Stop
ClickStop ==
  /\ rendered
  /\ stopRecording

\* socket.on('stop-rec')
OnStopRec(s) ==
  /\ sockets[s].connected
  /\ stopRecording

\* the toast timer of stopRecording
CompletionToast(t) ==
  /\ t \in completionTimers
  /\ now >= t.due
  /\ completionTimers' = completionTimers \ {t}
  /\ hist' = [hist EXCEPT !.completions = @ + 1]
  /\ UNCHANGED <<now, isRecording, rendered, localStreamRef, liveStreams, nStreams,
                 sockets, socketRef, recorders, mediaRecorderRef, recordingTimerRef,
                 restartTimers, countdowns, chunkIndexRef, recordingStartTimeRef,
                 currentChunkStartTimeRef, chunkRecordingStartTimeRef, uploads>>

\* React commits a render with a changed isRecording: the cleanup of the
\* effect with deps [isRecording] runs with the previous render's closure
Render ==
  /\ rendered # isRecording
  /\ LET recs1 == ClearSliceTimer(recorders)
         recs2 == IF rendered THEN StopRecorder(recs1, mediaRecorderRef) ELSE recs1
     IN recorders' =
          [r \in DOMAIN recs2 |->
             IF localStreamRef # NoStream /\ recs2[r].stream = localStreamRef
                /\ recs2[r].state = "recording"
             THEN [recs2[r] EXCEPT !.state = "inactive", !.pending = TRUE]
             ELSE recs2[r]]
  /\ sockets' = IF socketRef # NoRef
                THEN [sockets EXCEPT ![socketRef].connected = FALSE]
                ELSE sockets
  /\ liveStreams' = liveStreams \ {localStreamRef}
  /\ localStreamRef' = NoStream
  /\ rendered' = isRecording
  /\ UNCHANGED <<now, isRecording, nStreams, socketRef, mediaRecorderRef,
                 recordingTimerRef, restartTimers, countdowns, chunkIndexRef,
                 recordingStartTimeRef, currentChunkStartTimeRef,
                 chunkRecordingStartTimeRef, uploads, completionTimers, hist>>

\* the effect with deps [isAuthenticated, user, roomId]: initializeRoom,
\* i.e. initializeMedia (getUserMedia succeeds or not) and initializeSocket
initializeRoom(ok) ==
  /\ Events < MaxEvents
  /\ rendered = isRecording
  /\ IF ok
     THEN /\ nStreams' = nStreams + 1
          /\ liveStreams' = liveStreams \cup {nStreams + 1}
          /\ localStreamRef' = nStreams + 1
     ELSE UNCHANGED <<nStreams, liveStreams, localStreamRef>>
  /\ sockets' = Append(sockets, [cap |-> rendered, connected |-> TRUE])
  /\ socketRef' = Len(sockets) + 1
  /\ hist' = [hist EXCEPT !.inits = @ + 1]
  /\ UNCHANGED <<now, isRecording, rendered, recorders, mediaRecorderRef,
                 recordingTimerRef, restartTimers, countdowns, chunkIndexRef,
                 recordingStartTimeRef, currentChunkStartTimeRef,
                 chunkRecordingStartTimeRef, uploads, completionTimers>>

\* retryVideoConnection: the held stream is stopped and released, then
\* initializeMedia acquires a new one (or fails); a recorder on the stopped
\* stream ends with it
retryVideoConnection(ok) ==
  /\ Events < MaxEvents
  /\ hist.inits >= 1
  /\ hist.retries < MaxRetries
  /\ rendered = isRecording
  /\ recorders' =
       [r \in DOMAIN recorders |->
          IF localStreamRef # NoStream /\ recorders[r].stream = localStreamRef
             /\ recorders[r].state = "recording"
          THEN [recorders[r] EXCEPT !.state = "inactive", !.pending = TRUE]
          ELSE recorders[r]]
  /\ IF ok
     THEN /\ nStreams' = nStreams + 1
          /\ liveStreams' = (liveStreams \ {localStreamRef}) \cup {nStreams + 1}
          /\ localStreamRef' = nStreams + 1
     ELSE /\ liveStreams' = liveStreams \ {localStreamRef}
          /\ localStreamRef' = NoStream
          /\ UNCHANGED nStreams
  /\ hist' = [hist EXCEPT !.retries = @ + 1]
  /\ UNCHANGED <<now, isRecording, rendered, sockets, socketRef, mediaRecorderRef,
                 recordingTimerRef, restartTimers, countdowns, chunkIndexRef,
                 recordingStartTimeRef, currentChunkStartTimeRef,
                 chunkRecordingStartTimeRef, uploads, completionTimers>>

NextRec ==
  \/ Tick /\ UNCHANGED <<rtcVars, sioVars, guestVars, wsmVars>>
  \/ \E ok \in BOOLEAN : initializeRoom(ok) /\ UNCHANGED <<rtcVars, sioVars, guestVars, wsmVars>>
  \/ \E s \in DOMAIN sockets, d \in Delays : OnStartRecording(s, d) /\ UNCHANGED <<rtcVars, sioVars, guestVars, wsmVars>>
  \/ \E c \in countdowns : CountdownTick(c) /\ UNCHANGED <<rtcVars, sioVars, guestVars, wsmVars>>
  \/ \E r \in DOMAIN recorders : SliceTimerFires(r) /\ UNCHANGED <<rtcVars, sioVars, guestVars, wsmVars>>
  \/ \E r \in DOMAIN recorders, hasData \in BOOLEAN :
       RecorderStopped(r, hasData) /\ UNCHANGED <<rtcVars, sioVars, guestVars, wsmVars>>
  \/ \E t \in restartTimers : RestartTimerFires(t) /\ UNCHANGED <<rtcVars, sioVars, guestVars, wsmVars>>
  \/ \E i \in DOMAIN uploads, ok \in BOOLEAN : UploadSettles(i, ok) /\ UNCHANGED <<rtcVars, sioVars, guestVars, wsmVars>>
  \/ ClickStop /\ UNCHANGED <<rtcVars, sioVars, guestVars, wsmVars>>
  \/ \E s \in DOMAIN sockets : OnStopRec(s) /\ UNCHANGED <<rtcVars, sioVars, guestVars, wsmVars>>
  \/ \E t \in completionTimers : CompletionToast(t) /\ UNCHANGED <<rtcVars, sioVars, guestVars, wsmVars>>
  \/ \E ok \in BOOLEAN : retryVideoConnection(ok) /\ UNCHANGED <<rtcVars, sioVars, guestVars, wsmVars>>
  \/ Render /\ UNCHANGED <<rtcVars, sioVars, guestVars, wsmVars>>

SpecRec == Init /\ [][NextRec]_vars

\* ------------------------------------------------------------ part B
\* ---- the signaling hub (spec 4.1): fan-out to members whose socket is open
HubDeliver(box, recipients, m) ==
  [p \in Participants |->
     IF p \in recipients /\ wsOpen[p] THEN Append(box[p], m) ELSE box[p]]

\* WebSocketManager.sendMessage: refused unless the socket is OPEN; the hub
\* relays what it gets to every other member of the room
sendMessage(box, p, m) ==
  IF wsOpen[p] THEN HubDeliver(box, members \ {p}, m) ELSE box

Msg(type, from) == [type |-> type, from |-> from]

\* ---- WebRTCManager
NewPc(p, q, role, op) ==
  [owner |-> p, remote |-> q, role |-> role, op |-> op,
   localDesc |-> "none", remoteDesc |-> "none", conn |-> "new",
   closed |-> FALSE, tracks |-> localStream[p], gathered |-> 0, applied |-> 0,
   answerQueued |-> FALSE,
   ended |-> 0]          \* onRemoteStreamEnded calls made for this connection

\* createPeerConnection: a new connection, stored under the remote id
createPeerConnection(p, q, role, op) ==
  /\ Len(pcs) < MaxPcs
  /\ pcs' = Append(pcs, NewPc(p, q, role, op))
  /\ peerConnections' = [peerConnections EXCEPT ![p][q] = Len(pcs) + 1]

\* connectToParticipant, had it not looked the remote id up first
connectToParticipant_noCheck(p, q) ==
  /\ createPeerConnection(p, q, "offerer", "createOffer")
  /\ UNCHANGED rtcObs

\* connectToParticipant: up to the first await inside createOffer
connectToParticipant(p, q) ==
  IF peerConnections[p][q] # NoRef
  THEN /\ rtcObs' = [rtcObs EXCEPT !.dupConnect = @ + 1]
       /\ UNCHANGED <<pcs, peerConnections>>
  ELSE /\ createPeerConnection(p, q, "offerer", "createOffer")
       /\ UNCHANGED rtcObs

ClosePc(arena, i) == [arena EXCEPT ![i].closed = TRUE, ![i].conn = "closed"]

\* ---- SessionPage
\* handleJoinSession up to `new WebRTCManager`: the socket opens, the hub
\* registers the participant and announces it to the room
Join(p) ==
  /\ ~wsOpen[p]
  /\ p \notin members
  /\ rtcObs.joins < MaxJoins
  /\ wsOpen' = [wsOpen EXCEPT ![p] = TRUE]
  /\ rtcManager' = [rtcManager EXCEPT ![p] = TRUE]
  /\ localStream' = [localStream EXCEPT ![p] = FALSE]
  /\ peerConnections' = [peerConnections EXCEPT ![p] = [q \in Participants |-> NoRef]]
  /\ members' = members \cup {p}
  /\ inbox' = [q \in Participants |->
                 IF q = p THEN <<Msg("participant_joined", p)>>
                 ELSE IF q \in members /\ wsOpen[q]
                      THEN Append(inbox[q], Msg("participant_joined", p))
                      ELSE inbox[q]]
  /\ rtcObs' = [rtcObs EXCEPT !.joins = @ + 1, !.stamp[p] = rtcObs.joins + 1]
  /\ UNCHANGED pcs

\* initializeLocalStream resolves
LocalStreamReady(p) ==
  /\ rtcManager[p]
  /\ wsOpen[p]
  /\ ~localStream[p]
  /\ localStream' = [localStream EXCEPT ![p] = TRUE]
  /\ UNCHANGED <<members, wsOpen, rtcManager, peerConnections, pcs, inbox, rtcObs>>

\* the socket closes unexpectedly; what the hub had sent is lost
WsDrop(p) ==
  /\ wsOpen[p]
  /\ p \in members
  /\ rtcObs.drops < MaxReopens
  /\ wsOpen' = [wsOpen EXCEPT ![p] = FALSE]
  /\ inbox' = [inbox EXCEPT ![p] = <<>>]
  /\ rtcObs' = [rtcObs EXCEPT !.drops = @ + 1]
  /\ UNCHANGED <<members, rtcManager, localStream, peerConnections, pcs>>

\* attemptReconnect succeeds; the hub announces the participant again
WsReopen(p) ==
  /\ ~wsOpen[p]
  /\ p \in members
  /\ wsOpen' = [wsOpen EXCEPT ![p] = TRUE]
  /\ inbox' = [q \in Participants |->
                 IF q = p \/ (q \in members /\ wsOpen[q])
                 THEN Append(inbox[q], Msg("participant_joined", p))
                 ELSE inbox[q]]
  /\ UNCHANGED <<members, rtcManager, localStream, peerConnections, pcs, rtcObs>>

Receives(p, type) ==
  /\ wsOpen[p]
  /\ inbox[p] # <<>>
  /\ Head(inbox[p]).type = type

\* handleWebSocketMessage, case PARTICIPANT_JOINED
OnParticipantJoined(p) ==
  /\ Receives(p, "participant_joined")
  /\ inbox' = [inbox EXCEPT ![p] = Tail(@)]
  /\ IF rtcManager[p] /\ Head(inbox[p]).from # p
     THEN connectToParticipant(p, Head(inbox[p]).from)
     ELSE UNCHANGED <<pcs, peerConnections, rtcObs>>
  /\ UNCHANGED <<members, wsOpen, rtcManager, localStream>>

\* disconnectFromParticipant, had it left out config.onRemoteStreamEnded
disconnectFromParticipant_noEvent(p, q) ==
  IF peerConnections[p][q] # NoRef
  THEN /\ pcs' = ClosePc(pcs, peerConnections[p][q])
       /\ peerConnections' = [peerConnections EXCEPT ![p][q] = NoRef]
  ELSE UNCHANGED <<pcs, peerConnections>>

\* disconnectFromParticipant: pc.close() (which fires no event), delete the
\* entry, config.onRemoteStreamEnded(participantId)
disconnectFromParticipant(p, q) ==
  IF peerConnections[p][q] # NoRef
  THEN /\ pcs' = [ClosePc(pcs, peerConnections[p][q])
                    EXCEPT ![peerConnections[p][q]].ended = @ + 1]
       /\ peerConnections' = [peerConnections EXCEPT ![p][q] = NoRef]
  ELSE UNCHANGED <<pcs, peerConnections>>

\* handleWebSocketMessage, case PARTICIPANT_LEFT
OnParticipantLeft(p) ==
  /\ Receives(p, "participant_left")
  /\ inbox' = [inbox EXCEPT ![p] = Tail(@)]
  /\ IF rtcManager[p]
     THEN disconnectFromParticipant(p, Head(inbox[p]).from)
     ELSE UNCHANGED <<pcs, peerConnections>>
  /\ UNCHANGED <<members, wsOpen, rtcManager, localStream, rtcObs>>

\* handleWebSocketMessage, case WEBRTC_OFFER: handleOffer up to its first await
OnOffer(p) ==
  /\ Receives(p, "webrtc_offer")
  /\ inbox' = [inbox EXCEPT ![p] = Tail(@)]
  /\ IF rtcManager[p]
     THEN createPeerConnection(p, Head(inbox[p]).from, "answerer", "setRemoteOffer")
     ELSE UNCHANGED <<pcs, peerConnections>>
  /\ UNCHANGED <<members, wsOpen, rtcManager, localStream, rtcObs>>

\* RTCPeerConnection.setRemoteDescription(answer) is accepted
AwaitingAnswer(pc) ==
  ~pc.closed /\ pc.localDesc = "offer" /\ pc.remoteDesc = "none"

\* handleAnswer, had setRemoteDescription taken an answer in any state
handleAnswer_anyState(p, q) ==
  LET i == peerConnections[p][q] IN
  IF i = NoRef
  THEN /\ rtcObs' = [rtcObs EXCEPT !.answers = @ \cup {"noConnection"}]
       /\ UNCHANGED pcs
  ELSE /\ pcs' = [pcs EXCEPT ![i].remoteDesc = "answer"]
       /\ rtcObs' = [rtcObs EXCEPT !.answers = @ \cup {"applied"}]

\* handleAnswer: without a connection it logs and returns; otherwise
\* pc.setRemoteDescription(answer), which the connection accepts in
\* have-local-offer only and rejects (the call rethrows) in any other
\* signaling state. The call joins the connection's operations chain: behind
\* a setLocalDescription(offer) that is still running it is decided when that
\* one has settled.
handleAnswer(p, q) ==
  LET i == peerConnections[p][q] IN
  IF i = NoRef
  THEN /\ rtcObs' = [rtcObs EXCEPT !.answers = @ \cup {"noConnection"}]
       /\ UNCHANGED pcs
  ELSE IF AwaitingAnswer(pcs[i])
  THEN /\ pcs' = [pcs EXCEPT ![i].remoteDesc = "answer"]
       /\ rtcObs' = [rtcObs EXCEPT !.answers = @ \cup {"applied"}]
  ELSE IF pcs[i].op = "setLocalOffer" /\ ~pcs[i].closed
  THEN /\ pcs' = [pcs EXCEPT ![i].answerQueued = TRUE]
       /\ rtcObs' = [rtcObs EXCEPT !.answers = @ \cup {"queued"}]
  ELSE /\ rtcObs' = [rtcObs EXCEPT !.answers = @ \cup {"rejected"}]
       /\ UNCHANGED pcs

\* handleWebSocketMessage, case WEBRTC_ANSWER
OnAnswer(p) ==
  /\ Receives(p, "webrtc_answer")
  /\ inbox' = [inbox EXCEPT ![p] = Tail(@)]
  /\ IF rtcManager[p]
     THEN handleAnswer(p, Head(inbox[p]).from)
     ELSE UNCHANGED <<pcs, rtcObs>>
  /\ UNCHANGED <<members, wsOpen, rtcManager, localStream, peerConnections>>

\* handleIceCandidate: without a connection for the sender the candidate is
\* logged and gone; addIceCandidate needs a remote description, its
\* rejection is caught and logged
handleIceCandidate(p, q) ==
  LET i == peerConnections[p][q] IN
  IF i = NoRef
  THEN /\ rtcObs' = [rtcObs EXCEPT !.candsDiscarded = @ + 1]
       /\ UNCHANGED pcs
  ELSE /\ pcs' = IF ~pcs[i].closed /\ pcs[i].remoteDesc # "none"
                 THEN [pcs EXCEPT ![i].applied = @ + 1]
                 ELSE pcs
       /\ UNCHANGED rtcObs

\* handleWebSocketMessage, case ICE_CANDIDATE
OnIceCandidate(p) ==
  /\ Receives(p, "ice_candidate")
  /\ inbox' = [inbox EXCEPT ![p] = Tail(@)]
  /\ IF rtcManager[p]
     THEN handleIceCandidate(p, Head(inbox[p]).from)
     ELSE UNCHANGED <<pcs, rtcObs>>
  /\ UNCHANGED <<members, wsOpen, rtcManager, localStream, peerConnections>>

OfferRecord(pc) ==
  [from |-> pc.owner, to |-> pc.remote, sent |-> wsOpen[pc.owner],
   delivered |-> wsOpen[pc.owner] /\ pc.remote \in members /\ wsOpen[pc.remote],
   fromStamp |-> rtcObs.stamp[pc.owner], toStamp |-> rtcObs.stamp[pc.remote]]

\* an await of createOffer or handleOffer settles for connection i
PcStep(i, ok) ==
  /\ i \in DOMAIN pcs
  /\ pcs[i].op # "none"
  /\ LET pc == pcs[i]
         good == ok /\ ~pc.closed
     IN CASE ~good ->
               /\ pcs' = [pcs EXCEPT ![i].op = "none", ![i].answerQueued = FALSE]
               /\ UNCHANGED <<inbox, rtcObs>>
          [] good /\ pc.op = "createOffer" ->
               /\ pcs' = [pcs EXCEPT ![i].op = "setLocalOffer"]
               /\ UNCHANGED <<inbox, rtcObs>>
          [] good /\ pc.op = "setLocalOffer" ->
               /\ pcs' = [pcs EXCEPT ![i].op = "none", ![i].localDesc = "offer",
                                     ![i].answerQueued = FALSE,
                                     ![i].remoteDesc =
                                        IF pc.answerQueued THEN "answer" ELSE @]
               /\ inbox' = sendMessage(inbox, pc.owner, Msg("webrtc_offer", pc.owner))
               /\ rtcObs' = [rtcObs EXCEPT !.offers = Append(@, OfferRecord(pc))]
          [] good /\ pc.op = "setRemoteOffer" ->
               /\ pcs' = [pcs EXCEPT ![i].op = "createAnswer", ![i].remoteDesc = "offer"]
               /\ UNCHANGED <<inbox, rtcObs>>
          [] good /\ pc.op = "createAnswer" ->
               /\ pcs' = [pcs EXCEPT ![i].op = "setLocalAnswer"]
               /\ UNCHANGED <<inbox, rtcObs>>
          [] good /\ pc.op = "setLocalAnswer" ->
               /\ pcs' = [pcs EXCEPT ![i].op = "none", ![i].localDesc = "answer"]
               /\ inbox' = sendMessage(inbox, pc.owner, Msg("webrtc_answer", pc.owner))
               /\ UNCHANGED rtcObs
  /\ UNCHANGED <<members, wsOpen, rtcManager, localStream, peerConnections>>

\* pc.onicecandidate: a gathered candidate is sent to the remote id
IceGathered(i) ==
  /\ i \in DOMAIN pcs
  /\ ~pcs[i].closed
  /\ pcs[i].localDesc # "none"
  /\ pcs[i].gathered = 0
  /\ Cardinality({j \in DOMAIN pcs : pcs[j].gathered > 0}) < MaxCands
  /\ pcs' = [pcs EXCEPT ![i].gathered = @ + 1]
  /\ inbox' = sendMessage(inbox, pcs[i].owner, Msg("ice_candidate", pcs[i].owner))
  /\ UNCHANGED <<members, wsOpen, rtcManager, localStream, peerConnections, rtcObs>>

Negotiated(pc) == ~pc.closed /\ pc.localDesc # "none" /\ pc.remoteDesc # "none"

\* the transport of connection i comes up: both ends are negotiated and a
\* candidate of one end was applied at the other
TransportConnected(i) ==
  /\ i \in DOMAIN pcs
  /\ Negotiated(pcs[i])
  /\ pcs[i].conn = "new"
  /\ \E j \in DOMAIN pcs :
       /\ pcs[j].owner = pcs[i].remote
       /\ pcs[j].remote = pcs[i].owner
       /\ Negotiated(pcs[j])
       /\ pcs[i].applied + pcs[j].applied >= 1
  /\ pcs' = [pcs EXCEPT ![i].conn = "connected"]
  /\ UNCHANGED <<members, wsOpen, rtcManager, localStream, peerConnections, inbox,
                 rtcObs>>

\* the transport of connection i is lost; onconnectionstatechange reports it
\* (onConnectionStateChange, onRemoteStreamEnded), the connection stays in
\* the table
TransportLost(i) ==
  /\ i \in DOMAIN pcs
  /\ pcs[i].conn = "connected"
  /\ pcs' = [pcs EXCEPT ![i].conn = "failed", ![i].ended = @ + 1]
  /\ UNCHANGED <<members, wsOpen, rtcManager, localStream, peerConnections, inbox,
                 rtcObs>>

\* WebRTCManager.cleanup, had it kept the stream
cleanup_keepsStream(p) ==
  /\ pcs' = [i \in DOMAIN pcs |->
               IF \E q \in Participants : peerConnections[p][q] = i
               THEN ClosePc(pcs, i)[i] ELSE pcs[i]]
  /\ peerConnections' = [peerConnections EXCEPT ![p] = [q \in Participants |-> NoRef]]
  /\ UNCHANGED localStream

\* WebRTCManager.cleanup: every connection of the table is closed, the table
\* cleared, the tracks of the local stream stopped and the stream set to null
cleanup(p) ==
  /\ pcs' = [i \in DOMAIN pcs |->
               IF \E q \in Participants : peerConnections[p][q] = i
               THEN ClosePc(pcs, i)[i] ELSE pcs[i]]
  /\ peerConnections' = [peerConnections EXCEPT ![p] = [q \in Participants |-> NoRef]]
  /\ localStream' = [localStream EXCEPT ![p] = FALSE]

\* the cleanup of the effect with deps []: rtcManager.cleanup() and
\* wsManager.disconnect() once more, on a page that is joined or has left;
\* the page and its refs are gone afterwards
Unmount(p) ==
  /\ rtcManager[p]
  /\ wsOpen[p] \/ p \notin members
  /\ cleanup(p)
  /\ rtcManager' = [rtcManager EXCEPT ![p] = FALSE]
  /\ wsOpen' = [wsOpen EXCEPT ![p] = FALSE]
  /\ members' = members \ {p}
  /\ inbox' = [q \in Participants |->
                 IF q = p THEN <<>>
                 ELSE IF p \in members /\ q \in members /\ wsOpen[q]
                      THEN Append(inbox[q], Msg("participant_left", p))
                      ELSE inbox[q]]
  /\ rtcObs' = [rtcObs EXCEPT !.recleaned =
                   IF p \in members THEN @ ELSE @ \cup {p}]

\* handleLeaveSession: rtcManager.cleanup(), wsManager.disconnect(); the hub
\* tells the remaining members
Leave(p) ==
  /\ rtcManager[p]
  /\ wsOpen[p]
  /\ cleanup(p)
  /\ wsOpen' = [wsOpen EXCEPT ![p] = FALSE]
  /\ members' = members \ {p}
  /\ inbox' = [q \in Participants |->
                 IF q = p THEN <<>>
                 ELSE IF q \in members /\ wsOpen[q]
                      THEN Append(inbox[q], Msg("participant_left", p))
                      ELSE inbox[q]]
  /\ UNCHANGED <<rtcManager, rtcObs>>

NextRtc ==
  \/ \E p \in Participants : Join(p) /\ UNCHANGED <<recVars, sioVars, guestVars, wsmVars>>
  \/ \E p \in Participants : LocalStreamReady(p) /\ UNCHANGED <<recVars, sioVars, guestVars, wsmVars>>
  \/ \E p \in Participants : WsDrop(p) /\ UNCHANGED <<recVars, sioVars, guestVars, wsmVars>>
  \/ \E p \in Participants : WsReopen(p) /\ UNCHANGED <<recVars, sioVars, guestVars, wsmVars>>
  \/ \E p \in Participants : OnParticipantJoined(p) /\ UNCHANGED <<recVars, sioVars, guestVars, wsmVars>>
  \/ \E p \in Participants : OnParticipantLeft(p) /\ UNCHANGED <<recVars, sioVars, guestVars, wsmVars>>
  \/ \E p \in Participants : OnOffer(p) /\ UNCHANGED <<recVars, sioVars, guestVars, wsmVars>>
  \/ \E p \in Participants : OnAnswer(p) /\ UNCHANGED <<recVars, sioVars, guestVars, wsmVars>>
  \/ \E p \in Participants : OnIceCandidate(p) /\ UNCHANGED <<recVars, sioVars, guestVars, wsmVars>>
  \/ \E i \in DOMAIN pcs, ok \in BOOLEAN : PcStep(i, ok) /\ UNCHANGED <<recVars, sioVars, guestVars, wsmVars>>
  \/ \E i \in DOMAIN pcs : IceGathered(i) /\ UNCHANGED <<recVars, sioVars, guestVars, wsmVars>>
  \/ \E i \in DOMAIN pcs : TransportConnected(i) /\ UNCHANGED <<recVars, sioVars, guestVars, wsmVars>>
  \/ \E i \in DOMAIN pcs : TransportLost(i) /\ UNCHANGED <<recVars, sioVars, guestVars, wsmVars>>
  \/ \E p \in Participants : Leave(p) /\ UNCHANGED <<recVars, sioVars, guestVars, wsmVars>>

SpecRtc == Init /\ [][NextRtc]_vars

\* the session page with its unmount
NextRtcUnmount ==
  \/ NextRtc
  \/ \E p \in Participants : Unmount(p) /\ UNCHANGED <<recVars, sioVars, guestVars, wsmVars>>

SpecRtcUnmount == Init /\ [][NextRtcUnmount]_vars

\* ------------------------------------------------------------ part C
\* the hub's relay(roomId, sender, message): to every other member of roomId
SioRelay(box, from, room, type) ==
  [e \in Ends |->
     IF e # from /\ room # NoRoom /\ hubRooms[e] = room
     THEN Append(box[e], [type |-> type, from |-> from])
     ELSE box[e]]

\* StudioRoomPage.initializeRoom: initializeMedia, initializeSocket(roomId),
\* initializeWebRTC
HostMount(room, mediaOk) ==
  /\ sio["host"].socket = "none"
  /\ sio' = [sio EXCEPT !["host"] =
               [@ EXCEPT !.socket = "connecting", !.room = room, !.roomId = room,
                         !.stream = mediaOk, !.pc = TRUE]]
  /\ UNCHANGED <<sioCalls, hubRooms, sioInbox, sioObs>>

\* GuestJoinPage.joinSession: no call validates the token; the room joined is
\* roomId || 'default-room' with roomId the state that is never set
joinSession(g, guestName, mediaOk, tok) ==
  /\ ~sio[g].isConnected
  /\ IF guestName = ""
     THEN UNCHANGED <<sio, sioObs>>      \* toast 'Please enter your name'
     ELSE /\ sio' = [sio EXCEPT ![g] =
                      [@ EXCEPT !.socket = "connecting",
                                !.room = IF sio[g].roomId = "" THEN "default-room"
                                         ELSE sio[g].roomId,
                                !.stream = mediaOk, !.pc = TRUE,
                                !.isConnected = TRUE]]
          /\ sioObs' = [sioObs EXCEPT !.invalid =
                          IF tok = "valid" THEN @ ELSE @ \cup {g}]
  /\ UNCHANGED <<sioCalls, hubRooms, sioInbox>>

\* socket.on('connect'): emit join_room / join-room; the hub registers the
\* socket, answers room-joined and tells the room user-joined
SioConnect(e) ==
  /\ sio[e].socket = "connecting"
  /\ sio' = [sio EXCEPT ![e].socket = "connected"]
  /\ hubRooms' = [hubRooms EXCEPT ![e] = sio[e].room]
  /\ sioInbox' = [f \in Ends |->
                    IF f = e THEN Append(sioInbox[f], [type |-> "room-joined", from |-> e])
                    ELSE IF hubRooms[f] = sio[e].room
                         THEN Append(sioInbox[f], [type |-> "user-joined", from |-> e])
                         ELSE sioInbox[f]]
  /\ sioObs' = [sioObs EXCEPT !.order = Append(@, e)]
  /\ UNCHANGED sioCalls

StartCall(e, kind, step) ==
  /\ sioCalls' = [sioCalls EXCEPT ![e] = Append(@, [kind |-> kind, step |-> step])]
  /\ UNCHANGED sioObs

\* the socket.on handlers of both pages
SioReceive(e) ==
  /\ sio[e].socket = "connected"
  /\ sioInbox[e] # <<>>
  /\ LET m == Head(sioInbox[e])
         rest == [sioInbox EXCEPT ![e] = Tail(@)]
     IN CASE m.type = "room-joined" ->
               \* guest: socket.emit('ready'); host: log only
               /\ sioInbox' = IF e \in Guests
                              THEN SioRelay(rest, e, hubRooms[e], "ready")
                              ELSE rest
               /\ UNCHANGED <<sio, sioCalls, sioObs>>
          [] m.type = "user-joined" ->
               /\ sioInbox' = rest
               /\ UNCHANGED <<sio, sioCalls, sioObs>>
          [] m.type = "ready" ->
               \* host: createOffer() if it has a connection and a stream
               /\ sioInbox' = rest
               /\ IF e = "host" /\ sio[e].pc /\ sio[e].stream
                  THEN StartCall(e, "createOffer", "createOffer")
                  ELSE UNCHANGED <<sioCalls, sioObs>>
               /\ UNCHANGED sio
          [] m.type = "offer" ->
               /\ sioInbox' = rest
               /\ StartCall(e, "handleOffer", "setRemote")
               /\ UNCHANGED sio
          [] m.type = "answer" ->
               \* handleAnswer: setRemoteDescription(answer)
               /\ sioInbox' = rest
               /\ sio' = IF sio[e].sig = "have-local-offer"
                         THEN [sio EXCEPT ![e].sig = "stable", ![e].haveRemote = TRUE]
                         ELSE sio
               /\ UNCHANGED <<sioCalls, sioObs>>
          [] m.type = "ice-candidate" ->
               \* handleIceCandidate: addIceCandidate needs a remote description
               /\ sioInbox' = rest
               /\ sio' = IF sio[e].haveRemote
                         THEN [sio EXCEPT ![e].applied = @ + 1]
                         ELSE sio
               /\ UNCHANGED <<sioCalls, sioObs>>
  /\ UNCHANGED hubRooms

\* sequence s without its k-th element
RemoveAt(s, k) == [i \in 1..(Len(s) - 1) |-> IF i < k THEN s[i] ELSE s[i + 1]]

\* an await of createOffer (part_003:953) or handleOffer (join page:176)
\* settles for the k-th pending call of page e; a step the signaling state
\* does not allow throws into the call's catch; the payload's roomId is the
\* page's own roomId
SioCallStep(e, k) ==
  /\ k \in DOMAIN sioCalls[e]
  /\ LET c == sioCalls[e][k]
         next(step) == [sioCalls EXCEPT ![e][k].step = step]
         done == [sioCalls EXCEPT ![e] = RemoveAt(@, k)]
         sig == sio[e].sig
     IN CASE c.kind = "createOffer" /\ c.step = "createOffer" ->
               /\ sioCalls' = next("setLocal")
               /\ UNCHANGED <<sio, sioInbox>>
          [] c.kind = "createOffer" /\ c.step = "setLocal" ->
               /\ sioCalls' = done
               /\ IF sig \in {"stable", "have-local-offer"}
                  THEN /\ sio' = [sio EXCEPT ![e].sig = "have-local-offer",
                                             ![e].haveLocal = TRUE]
                       /\ sioInbox' = SioRelay(sioInbox, e, sio[e].roomId, "offer")
                  ELSE UNCHANGED <<sio, sioInbox>>
          [] c.kind = "handleOffer" /\ c.step = "setRemote" ->
               /\ IF sig \in {"stable", "have-remote-offer"}
                  THEN /\ sio' = [sio EXCEPT ![e].sig = "have-remote-offer",
                                             ![e].haveRemote = TRUE]
                       /\ sioCalls' = next("createAnswer")
                  ELSE /\ sioCalls' = done
                       /\ UNCHANGED sio
               /\ UNCHANGED sioInbox
          [] c.kind = "handleOffer" /\ c.step = "createAnswer" ->
               /\ sioCalls' = IF sig = "have-remote-offer" THEN next("setLocal") ELSE done
               /\ UNCHANGED <<sio, sioInbox>>
          [] c.kind = "handleOffer" /\ c.step = "setLocal" ->
               /\ sioCalls' = done
               /\ IF sig = "have-remote-offer"
                  THEN /\ sio' = [sio EXCEPT ![e].sig = "stable", ![e].haveLocal = TRUE]
                       /\ sioInbox' = SioRelay(sioInbox, e, sio[e].roomId, "answer")
                  ELSE UNCHANGED <<sio, sioInbox>>
  /\ UNCHANGED <<hubRooms, sioObs>>

\* peerConnection.onicecandidate: emit the candidate with the page's roomId
SioIceGathered(e) ==
  /\ sio[e].pc
  /\ sio[e].socket # "none"
  /\ sio[e].haveLocal
  /\ sio[e].gathered < MaxCands
  /\ sio' = [sio EXCEPT ![e].gathered = @ + 1]
  /\ sioInbox' = SioRelay(sioInbox, e, sio[e].roomId, "ice-candidate")
  /\ UNCHANGED <<sioCalls, hubRooms, sioObs>>

NextSio ==
  \/ \E room \in HostRooms, mediaOk \in BOOLEAN :
       HostMount(room, mediaOk) /\ UNCHANGED <<recVars, rtcVars, guestVars, wsmVars>>
  \/ \E g \in Guests, guestName \in {"", "Guest User"}, mediaOk \in BOOLEAN,
          tok \in TokenStates :
       joinSession(g, guestName, mediaOk, tok) /\ UNCHANGED <<recVars, rtcVars, guestVars, wsmVars>>
  \/ \E e \in Ends : SioConnect(e) /\ UNCHANGED <<recVars, rtcVars, guestVars, wsmVars>>
  \/ \E e \in Ends : SioReceive(e) /\ UNCHANGED <<recVars, rtcVars, guestVars, wsmVars>>
  \/ \E e \in Ends, k \in 1..2 : SioCallStep(e, k) /\ UNCHANGED <<recVars, rtcVars, guestVars, wsmVars>>
  \/ \E e \in Ends : SioIceGathered(e) /\ UNCHANGED <<recVars, rtcVars, guestVars, wsmVars>>

SpecSio == Init /\ [][NextSio]_vars

\* ------------------------------------------------------------ part D
\* joinSession: initializeMedia (its failure is caught inside), then
\* initializeSocket registers the handlers of this render (isRecording false)
GuestJoin(mediaOk) ==
  /\ ~guest.isConnected
  /\ guest' = [guest EXCEPT !.isConnected = TRUE, !.stream = mediaOk]
  /\ UNCHANGED <<guestRecorders, chunkArrays, uploadLoops, guestUploads>>

\* socket.on('start-recording'), at the end of the countdown:
\* setIsRecording(true); startLocalRecording()
GuestStartRecording ==
  /\ guest.isConnected
  /\ guest.mounted
  /\ guest.starts < MaxGuestStarts
  /\ guest' = [guest EXCEPT !.isRecording = TRUE, !.starts = @ + 1]
  /\ IF guest.stream
     THEN /\ chunkArrays' = Append(chunkArrays, 0)
          /\ guestRecorders' = Append(guestRecorders,
                                      [state |-> "recording", pending |-> FALSE])
     ELSE UNCHANGED <<chunkArrays, guestRecorders>>
  /\ UNCHANGED <<uploadLoops, guestUploads>>

\* mediaRecorder.ondataavailable of the guest page: the blob goes to the
\* array recordingChunksRef points to now
guestOndataavailable(hasData) ==
  IF hasData
  THEN chunkArrays' = [chunkArrays EXCEPT ![Len(chunkArrays)] = @ + 1]
  ELSE UNCHANGED chunkArrays

\* a timeslice of start(1000) ends
GuestTimeslice(r) ==
  /\ r \in DOMAIN guestRecorders
  /\ guestRecorders[r].state = "recording"
  /\ chunkArrays[Len(chunkArrays)] < MaxBlobs
  /\ guestOndataavailable(TRUE)
  /\ UNCHANGED <<guest, guestRecorders, uploadLoops, guestUploads>>

\* socket.on('stop-rec') -> stopRecording of the render that joined: its
\* isRecording is false, so the guard at join page 259 never passes
GuestStopRec ==
  /\ guest.isConnected
  /\ guest.mounted
  /\ guest.stopRecs < 1
  /\ guest' = [guest EXCEPT !.stopRecs = @ + 1]
  /\ UNCHANGED <<guestRecorders, chunkArrays, uploadLoops, guestUploads>>

\* the page unmounts: the socket is disconnected and the tracks are stopped,
\* which ends every recorder that is capturing them
GuestUnmount ==
  /\ guest.isConnected
  /\ guest.mounted
  /\ guest' = [guest EXCEPT !.mounted = FALSE]
  /\ guestRecorders' =
       [r \in DOMAIN guestRecorders |->
          IF guestRecorders[r].state = "recording"
          THEN [state |-> "inactive", pending |-> TRUE]
          ELSE guestRecorders[r]]
  /\ UNCHANGED <<chunkArrays, uploadLoops, guestUploads>>

\* the task of a stopped recorder: dataavailable, then onstop ->
\* uploadRecordingChunks() up to its first await
GuestRecorderStopped(r, hasData) ==
  /\ r \in DOMAIN guestRecorders
  /\ guestRecorders[r].pending
  /\ guestRecorders' = [guestRecorders EXCEPT ![r].pending = FALSE]
  /\ guestOndataavailable(hasData /\ chunkArrays[Len(chunkArrays)] < MaxBlobs)
  /\ uploadLoops' = Append(uploadLoops,
                           [chunks |-> Len(chunkArrays'), i |-> 0, unit |-> 0,
                            state |-> "next"])
  /\ UNCHANGED <<guest, guestUploads>>

\* the transfer unit uploadRecordingChunks posts for chunks[i]
GuestTransferUnit(l) ==
  [chunks |-> uploadLoops[l].chunks,
   position |-> uploadLoops[l].i + 1,     \* chunks[i] is the (i+1)-th blob captured
   chunk_index |-> uploadLoops[l].i,
   status |-> "pending"]

\* uploadRecordingChunks: one turn of the for loop up to its await, or the
\* end of the loop
uploadRecordingChunks(l) ==
  /\ l \in DOMAIN uploadLoops
  /\ uploadLoops[l].state = "next"
  /\ IF uploadLoops[l].i < chunkArrays[uploadLoops[l].chunks]
     THEN /\ guestUploads' = Append(guestUploads, GuestTransferUnit(l))
          /\ uploadLoops' = [uploadLoops EXCEPT ![l].state = "awaiting",
                                                ![l].unit = Len(guestUploads) + 1]
     ELSE /\ uploadLoops' = [uploadLoops EXCEPT ![l].state = "done"]
          /\ UNCHANGED guestUploads
  /\ UNCHANGED <<guest, guestRecorders, chunkArrays>>

\* await RecordingAPI.uploadChunk settles: next turn, or the catch
GuestUploadSettles(l, ok) ==
  /\ l \in DOMAIN uploadLoops
  /\ uploadLoops[l].state = "awaiting"
  /\ guestUploads' = [guestUploads EXCEPT ![uploadLoops[l].unit].status =
                        IF ok THEN "uploaded" ELSE "failed"]
  /\ uploadLoops' = [uploadLoops EXCEPT ![l].state = IF ok THEN "next" ELSE "failed",
                                        ![l].i = IF ok THEN @ + 1 ELSE @]
  /\ UNCHANGED <<guest, guestRecorders, chunkArrays>>

NextGuest ==
  \/ \E mediaOk \in BOOLEAN : GuestJoin(mediaOk) /\ UNCHANGED <<recVars, rtcVars, sioVars, wsmVars>>
  \/ GuestStartRecording /\ UNCHANGED <<recVars, rtcVars, sioVars, wsmVars>>
  \/ \E r \in DOMAIN guestRecorders : GuestTimeslice(r) /\ UNCHANGED <<recVars, rtcVars, sioVars, wsmVars>>
  \/ GuestStopRec /\ UNCHANGED <<recVars, rtcVars, sioVars, wsmVars>>
  \/ GuestUnmount /\ UNCHANGED <<recVars, rtcVars, sioVars, wsmVars>>
  \/ \E r \in DOMAIN guestRecorders, hasData \in BOOLEAN :
       GuestRecorderStopped(r, hasData) /\ UNCHANGED <<recVars, rtcVars, sioVars, wsmVars>>
  \/ \E l \in DOMAIN uploadLoops : uploadRecordingChunks(l) /\ UNCHANGED <<recVars, rtcVars, sioVars, wsmVars>>
  \/ \E l \in DOMAIN uploadLoops, ok \in BOOLEAN :
       GuestUploadSettles(l, ok) /\ UNCHANGED <<recVars, rtcVars, sioVars, wsmVars>>

SpecGuest == Init /\ [][NextGuest]_vars

\* ------------------------------------------------------------ part E
\* connect(wsUrl) up to the return of the promise: new WebSocket
connect(m) == [m EXCEPT !.ws = Len(wsSockets) + 1]

startHeartbeat(m) ==
  [m EXCEPT !.heartbeatInterval = TRUE, !.intervals = @ + 1]

stopHeartbeat(m) ==
  IF m.heartbeatInterval
  THEN [m EXCEPT !.heartbeatInterval = FALSE, !.intervals = @ - 1]
  ELSE m

attemptReconnect(m) ==
  [m EXCEPT !.reconnectAttempts = @ + 1, !.timers = @ + 1]

\* the page calls connect() on a manager that holds no socket
WsmConnect ==
  /\ wsm.ws = NoRef
  /\ wsObs.connectCalls < MaxConnectCalls
  /\ Len(wsSockets) < MaxSockets
  /\ wsm' = connect(wsm)
  /\ wsSockets' = Append(wsSockets, "connecting")
  /\ wsObs' = [wsObs EXCEPT !.connectCalls = @ + 1]
  /\ UNCHANGED <<wsWire, wsRelayed>>

\* ws.onopen
WsmOnopen(k) ==
  /\ k \in DOMAIN wsSockets
  /\ wsSockets[k] = "connecting"
  /\ wsSockets' = [wsSockets EXCEPT ![k] = "open"]
  /\ wsm' = startHeartbeat([wsm EXCEPT !.reconnectAttempts = 0])
  /\ wsObs' = [wsObs EXCEPT !.sinceOpen = 0]
  /\ UNCHANGED <<wsWire, wsRelayed>>

\* the condition under which onclose calls attemptReconnect, without the
\* limit on the attempts
ShouldReconnect_noLimit(m) == ~m.isManualClose

\* the condition under which onclose calls attemptReconnect
ShouldReconnect(m) ==
  ~m.isManualClose /\ m.reconnectAttempts < maxReconnectAttempts

\* ws.onclose: the connection failed, was lost or was closed by disconnect()
WsmOnclose(k) ==
  /\ k \in DOMAIN wsSockets
  /\ wsSockets[k] # "closed"
  /\ wsSockets' = [wsSockets EXCEPT ![k] = "closed"]
  /\ LET m == stopHeartbeat(wsm) IN
     IF ShouldReconnect(m)
     THEN /\ wsm' = attemptReconnect(m)
          /\ wsObs' = [wsObs EXCEPT !.sinceOpen = @ + 1]
     ELSE /\ wsm' = m
          /\ UNCHANGED wsObs
  /\ UNCHANGED <<wsWire, wsRelayed>>

\* the setTimeout of attemptReconnect, had it not looked at isManualClose
WsmReconnectTimer_unchecked ==
  /\ wsm.timers > 0
  /\ Len(wsSockets) < MaxSockets
  /\ wsm' = connect([wsm EXCEPT !.timers = @ - 1])
  /\ wsSockets' = Append(wsSockets, "connecting")
  /\ UNCHANGED <<wsWire, wsRelayed, wsObs>>

\* the setTimeout of attemptReconnect
WsmReconnectTimer ==
  /\ wsm.timers > 0
  /\ IF wsm.isManualClose
     THEN /\ wsm' = [wsm EXCEPT !.timers = @ - 1]
          /\ UNCHANGED wsSockets
     ELSE /\ Len(wsSockets) < MaxSockets
          /\ wsm' = connect([wsm EXCEPT !.timers = @ - 1])
          /\ wsSockets' = Append(wsSockets, "connecting")
  /\ UNCHANGED <<wsWire, wsRelayed, wsObs>>

\* disconnect()
WsmDisconnect ==
  /\ wsObs.connectCalls >= 1
  /\ ~wsm.isManualClose \/ wsm.ws # NoRef
  /\ wsm' = [stopHeartbeat(wsm) EXCEPT !.isManualClose = TRUE, !.ws = NoRef]
  /\ wsSockets' = IF wsm.ws # NoRef /\ wsSockets[wsm.ws] # "closed"
                  THEN [wsSockets EXCEPT ![wsm.ws] = "closing"]
                  ELSE wsSockets
  /\ UNCHANGED <<wsWire, wsRelayed, wsObs>>

CanSend(m) == m.ws # NoRef /\ wsSockets[m.ws] = "open"

\* sendMessage, had it put the message in front of what was handed over
HandOver_reordered(wire, m, id) ==
  IF CanSend(m) THEN <<[id |-> id, socket |-> m.ws]>> \o wire ELSE wire

\* sendMessage: ws.send at once if the socket is OPEN, nothing otherwise
HandOver(wire, m, id) ==
  IF CanSend(m) THEN Append(wire, [id |-> id, socket |-> m.ws]) ELSE wire

\* a sendMessage call: of the page (sendOffer, ...) or of the heartbeat timer
WsmSendMessage(heartbeat) ==
  /\ wsObs.sends < MaxSends
  /\ IF heartbeat THEN wsm.intervals > 0 ELSE wsObs.connectCalls >= 1
  /\ wsWire' = HandOver(wsWire, wsm, wsObs.sends + 1)
  /\ wsObs' = [wsObs EXCEPT !.sends = @ + 1,
                            !.refused = IF CanSend(wsm) THEN @
                                        ELSE @ \cup {wsObs.sends + 1}]
  /\ UNCHANGED <<wsm, wsSockets, wsRelayed>>

\* the hub relays what arrives on a socket, in order (spec 4.1)
WsmHubRelay ==
  /\ wsRelayed < Len(wsWire)
  /\ wsRelayed' = wsRelayed + 1
  /\ wsObs' = [wsObs EXCEPT !.observed = Append(@, wsWire[wsRelayed + 1])]
  /\ UNCHANGED <<wsm, wsSockets, wsWire>>

NextWsm ==
  \/ WsmConnect /\ UNCHANGED <<recVars, rtcVars, sioVars, guestVars>>
  \/ \E k \in DOMAIN wsSockets : WsmOnopen(k) /\ UNCHANGED <<recVars, rtcVars, sioVars, guestVars>>
  \/ \E k \in DOMAIN wsSockets : WsmOnclose(k) /\ UNCHANGED <<recVars, rtcVars, sioVars, guestVars>>
  \/ WsmReconnectTimer /\ UNCHANGED <<recVars, rtcVars, sioVars, guestVars>>
  \/ WsmDisconnect /\ UNCHANGED <<recVars, rtcVars, sioVars, guestVars>>
  \/ \E heartbeat \in BOOLEAN :
       WsmSendMessage(heartbeat) /\ UNCHANGED <<recVars, rtcVars, sioVars, guestVars>>
  \/ WsmHubRelay /\ UNCHANGED <<recVars, rtcVars, sioVars, guestVars>>

SpecWsm == Init /\ [][NextWsm]_vars

\* ------------------------------------------------------------ claims, part E
\* C25: of two messages handed over on one socket a recipient observes the
\* one sent first first, and a message sendMessage refused is never observed.
C25_SendOrderKept ==
  /\ \A a, b \in DOMAIN wsObs.observed :
       (a < b /\ wsObs.observed[a].socket = wsObs.observed[b].socket) =>
         wsObs.observed[a].id < wsObs.observed[b].id
  /\ \A a \in DOMAIN wsObs.observed : wsObs.observed[a].id \notin wsObs.refused

\* two messages observed in order, a refused one sent in between
C25_Witness ==
  /\ Len(wsObs.observed) >= 2
  /\ wsObs.observed[1].socket = wsObs.observed[2].socket
  /\ \E id \in wsObs.refused : TRUE

C34_ReconnectAfterReuse ==
  [][\A k \in DOMAIN wsSockets :
       (/\ wsm.ws = k
        /\ wsSockets[k] \in {"connecting", "open"}
        /\ wsSockets'[k] = "closed"
        /\ wsm.reconnectAttempts < maxReconnectAttempts) =>
         wsm'.timers = wsm.timers + 1]_vars

\* ------------------------------------------------------------ claims, part D
\* C23: every transfer unit carries the 1-based position of its segment in
\* capture order as chunk_index.
C23_ChunkIndexIsPosition ==
  \A k \in DOMAIN guestUploads :
    /\ guestUploads[k].chunk_index >= 1
    /\ guestUploads[k].chunk_index = guestUploads[k].position

\* ------------------------------------------------------------ claims, part C
\* what an RTCPeerConnection needs before it can report connected
SioNegotiated(e) ==
  sio[e].haveLocal /\ sio[e].haveRemote /\ sio[e].sig = "stable"

\* nothing is in flight and nothing is left to run
SioQuiet ==
  /\ \A e \in Ends : sioCalls[e] = <<>>
  /\ \A e \in Ends : sioInbox[e] = <<>> /\ sio[e].socket # "connecting"
  /\ \A e \in Ends : ~ENABLED SioIceGathered(e)

\* the host with its media, then guest g, joined one room and nobody else did
SioPaired(g) ==
  /\ sioObs.order = <<"host", g>>
  /\ hubRooms["host"] = hubRooms[g]
  /\ sio["host"].stream
  /\ sio[g].stream
  /\ \A f \in Guests \ {g} : sio[f].socket = "none"

\* C6: once the host and a guest have joined the same room and every relayed
\* message has been handled, both ends hold a local and a remote description
\* (the offer reached the guest and its answer reached the host), which is
\* what reporting Connected requires.
C6_ExchangeCompletes ==
  \A g \in Guests :
    (SioPaired(g) /\ SioQuiet) => (SioNegotiated("host") /\ SioNegotiated(g))

\* C10: a guest token with one remaining use admits at most one join.
C10_TokenAdmitsOneJoin ==
  \A g \in Guests :
    Cardinality({f \in Guests : sio[f].isConnected /\ GuestToken(f) = GuestToken(g)})
      <= USES_REMAINING_DEFAULT

\* C11: a page that was submitted with an expired, exhausted or inactive
\* token never opens its socket, so it emits no join-room and the hub never
\* has it in a room.
C11_InvalidTokenNeverJoins ==
  \A g \in sioObs.invalid : sio[g].socket = "none" /\ hubRooms[g] = NoRoom

\* the room of the recording the invite link was generated for: the host
\* page generates it for its own roomId
TokenRoom == sio["host"].roomId

\* C31: a guest the hub has registered is in the room of the recording its
\* token belongs to, and once it has sent an answer or a candidate, the room
\* id those carry is that room.
C31_GuestJoinsTokenRoom ==
  \A g \in Guests :
    (hubRooms[g] # NoRoom /\ TokenRoom # "") =>
      /\ hubRooms[g] = TokenRoom
      /\ (sio[g].haveLocal \/ sio[g].gathered > 0) => sio[g].roomId = TokenRoom

\* ------------------------------------------------------------ claims, part B
OfferersFor(p, q) ==
  {i \in DOMAIN pcs : pcs[i].owner = p /\ pcs[i].remote = q /\ pcs[i].role = "offerer"}

OffersSent(p, q) ==
  {k \in DOMAIN rtcObs.offers : rtcObs.offers[k].from = p /\ rtcObs.offers[k].to = q}

\* C4: while the table of a participant holds a connection for a remote id, no
\* step creates an offering connection for that id (a repeated
\* connectToParticipant, also one that arrives while the first offer is still
\* being created, creates nothing), and no more offers go to a remote id than
\* offering connections were created for it.
C4_ConnectIsIdempotent ==
  /\ [](\A p, q \in Participants :
          Cardinality(OffersSent(p, q)) <= Cardinality(OfferersFor(p, q)))
  /\ [][Len(pcs') > Len(pcs) =>
          LET n == pcs'[Len(pcs')] IN
          n.role = "offerer" => peerConnections[n.owner][n.remote] = NoRef]_vars

C4_Witness ==
  /\ rtcObs.dupConnect >= 1
  /\ \E i \in DOMAIN pcs :
       /\ pcs[i].role = "offerer"
       /\ pcs[i].op = "createOffer"
       /\ peerConnections[pcs[i].owner][pcs[i].remote] = i
       /\ Cardinality(OfferersFor(pcs[i].owner, pcs[i].remote)) = 1

\* C16: no ICE candidate that arrives while the table holds no connection for
\* its sender is discarded (it is kept for the connection created later).
C16_EarlyCandidateKept == rtcObs.candsDiscarded = 0

\* a step in which participant p takes a message of the given type, sent by
\* q, from its socket
Takes(p, q, type) ==
  /\ Receives(p, type)
  /\ Head(inbox[p]).from = q
  /\ inbox'[p] = Tail(inbox[p])
  /\ wsOpen'[p]

C18_OfferWhileConnectedIgnored ==
  [][\A p, q \in Participants :
       LET i == peerConnections[p][q] IN
       (Takes(p, q, "webrtc_offer") /\ i # NoRef /\ pcs[i].conn = "connected") =>
         (peerConnections'[p][q] = i /\ pcs' = pcs)]_vars

\* remote-stream-ended events participant p was given for remote id q
RECURSIVE EndedUpTo(_, _, _, _)
EndedUpTo(arena, p, q, n) ==
  IF n = 0 THEN 0
  ELSE EndedUpTo(arena, p, q, n - 1)
         + (IF arena[n].owner = p /\ arena[n].remote = q THEN arena[n].ended ELSE 0)

EndedEvents(arena, p, q) == EndedUpTo(arena, p, q, Len(arena))

\* C19: disconnectFromParticipant(q) at p, called for a participant_left:
\* with a connection for q in the table it closes that connection, removes q
\* from the table and gives exactly one remote-stream-ended event for q, and
\* touches nothing else; without one it changes nothing and gives no event.
C19_DisconnectClosesOnce ==
  [][\A p, q \in Participants :
       LET i == peerConnections[p][q] IN
       (Takes(p, q, "participant_left") /\ rtcManager[p]) =>
         IF i # NoRef
         THEN /\ pcs'[i].closed
              /\ peerConnections' = [peerConnections EXCEPT ![p][q] = NoRef]
              /\ EndedEvents(pcs', p, q) = EndedEvents(pcs, p, q) + 1
              /\ \A j \in DOMAIN pcs : j # i => pcs'[j] = pcs[j]
              /\ Len(pcs') = Len(pcs)
         ELSE /\ pcs' = pcs
              /\ peerConnections' = peerConnections]_vars

\* a connection that disconnectFromParticipant closed and took from the table
\* of a participant that is still in the session
C19_Witness ==
  \E i \in DOMAIN pcs :
    /\ pcs[i].closed
    /\ pcs[i].ended >= 1
    /\ pcs[i].owner \in members
    /\ pcs[i].remote \notin members
    /\ peerConnections[pcs[i].owner][pcs[i].remote] = NoRef

\* the last offer p made for q did not reach q's socket
LastOfferLost(p, q) ==
  /\ OffersSent(p, q) # {}
  /\ LET k == CHOOSE x \in OffersSent(p, q) : \A y \in OffersSent(p, q) : y <= x
     IN ~rtcObs.offers[k].delivered

\* C20: when the last offer of p to q was not delivered and a new
\* participant_joined for q arrives at p, the connectToParticipant it triggers
\* starts a new offer to q.
C20_LostOfferIsRenegotiated ==
  [][\A p, q \in Participants :
       (/\ p # q
        /\ rtcManager[p]
        /\ LastOfferLost(p, q)
        /\ Takes(p, q, "participant_joined")) =>
         \E i \in DOMAIN pcs' :
           /\ i > Len(pcs)
           /\ pcs'[i].owner = p
           /\ pcs'[i].remote = q
           /\ pcs'[i].role = "offerer"]_vars

\* C26: the table of a client holds no connection whose state is failed, and
\* the step that handles participant_left of q leaves no entry for q.
C26_NoEntryForFailedOrLeft ==
  /\ [](\A p, q \in Participants :
          peerConnections[p][q] # NoRef => pcs[peerConnections[p][q]].conn # "failed")
  /\ [][\A p, q \in Participants :
          (Takes(p, q, "participant_left") /\ rtcManager[p]) =>
            peerConnections'[p][q] = NoRef]_vars

\* C29: a connection whose offer or answer was sent has the local tracks
\* attached.
C29_SentDescriptionHasTracks ==
  \A i \in DOMAIN pcs : pcs[i].localDesc # "none" => pcs[i].tracks

\* getConnectedParticipants: the keys of the table
getConnectedParticipants(p) ==
  {q \in Participants : peerConnections[p][q] # NoRef}

\* isConnectedTo: the entry's connectionState is 'connected'
isConnectedTo(p, q) ==
  /\ peerConnections[p][q] # NoRef
  /\ ~pcs[peerConnections[p][q]].closed
  /\ pcs[peerConnections[p][q]].conn = "connected"

\* C32: q is in the list getConnectedParticipants returns at p if and only if
\* isConnectedTo(q) is true at p.
C32_ListedIffConnected ==
  \A p, q \in Participants :
    rtcManager[p] => (q \in getConnectedParticipants(p) <=> isConnectedTo(p, q))

\* C35: the table holds no connection of a createOffer that has failed (an
\* offerer's connection whose awaits are over and that has no local offer).
C35_FailedOfferLeavesNoEntry ==
  \A p, q \in Participants :
    LET i == peerConnections[p][q] IN
    i # NoRef =>
      ~(pcs[i].role = "offerer" /\ pcs[i].op = "none" /\ pcs[i].localDesc = "none")

\* C36: every connection ever created is closed or is the table entry of its
\* remote id at its owner.
C36_NoConnectionLeaked ==
  \A i \in DOMAIN pcs :
    pcs[i].closed \/ peerConnections[pcs[i].owner][pcs[i].remote] = i

\* C39: a step that runs cleanup at p (the leave, or the unmount of the page)
\* ends with an empty table and no local stream at p, and the cleanup of an
\* unmount that follows the leave changes no connection, no table and no
\* stream.
C39_CleanupIdempotent ==
  [][\A p \in Participants :
       /\ ((p \in members /\ p \notin members') \/ (rtcManager[p] /\ ~rtcManager'[p])) =>
            /\ \A q \in Participants : peerConnections'[p][q] = NoRef
            /\ ~localStream'[p]
       /\ (rtcManager[p] /\ ~rtcManager'[p] /\ p \notin members) =>
            /\ pcs' = pcs
            /\ peerConnections' = peerConnections
            /\ localStream' = localStream]_vars

\* a page that had connections and a stream has left and was unmounted then
C39_Witness ==
  \E p \in rtcObs.recleaned :
    /\ ~rtcManager[p]
    /\ \E i \in DOMAIN pcs : pcs[i].owner = p /\ pcs[i].closed /\ pcs[i].tracks

\* C5: every offer that is sent goes from the participant that joined later to
\* the one that joined earlier.
C5_LaterJoinerOffers ==
  \A k \in DOMAIN rtcObs.offers :
    rtcObs.offers[k].sent => rtcObs.offers[k].fromStamp > rtcObs.offers[k].toStamp

\* ------------------------------------------------------------ claims, part A
\* nothing is queued, capturing or scheduled any more
RecQuiet ==
  /\ ~TaskQueued
  /\ \A r \in DOMAIN recorders : recorders[r].state = "inactive" /\ ~recorders[r].timer
  /\ restartTimers = {}
  /\ countdowns = {}

SessionUnits(k) == SelectSeq(uploads, LAMBDA u : u.session = k)

\* C1: within one recording session (startLocalRecording up to the next one)
\* the segments handed to upload carry chunk_index 1, 2, 3, ... in order, the
\* first starts at offset 0 and each later one starts where the previous ended
C1_ContiguousSegments ==
  \A k \in 1..hist.session :
    LET s == SessionUnits(k) IN
    \A n \in DOMAIN s :
      /\ s[n].chunk_index = n
      /\ s[n].start_ms = IF n = 1 THEN 0 ELSE s[n - 1].end_ms

\* a session with two segments, an empty slice in between and a stop
C1_Witness ==
  /\ hist.dropped >= 1
  /\ hist.runStops >= 1
  /\ \E k \in 1..hist.session :
       /\ Len(SessionUnits(k)) >= 2
       /\ SessionUnits(k)[2].start_ms > 0

\* C2: once stopRecording has been called after a start that found a camera
\* stream, no slice came out empty and the recorder has come to rest, a
\* segment of that run was handed to upload with end >= start
C2_StopYieldsFinalSegment ==
  (hist.streamAtStart /\ hist.runStops >= 1 /\ hist.dropped = 0 /\ RecQuiet) =>
    \E i \in DOMAIN uploads :
      uploads[i].run = hist.run /\ uploads[i].end_ms >= uploads[i].start_ms

\* C3: with no start in between, only the first stopRecording emits
\* recording_stopped; a second call emits nothing
C3_SecondStopIsNoop == hist.runStoppedEmits <= 1

\* C7: for a start-recording with a startTime in the future the countdown
\* ends, and capture is started, within 200 ms of startTime
C7_StartWithinTolerance ==
  \A x \in hist.expiries : x.late <= 200 /\ 0 - x.late <= 200

\* C8: an upload is retried: a segment is reported failed only after the
\* attempts of the scenario (two failures, success on the third) were made
C8_RetriedBeforeFailure ==
  \A i \in DOMAIN uploads : uploads[i].status = "failed" => uploads[i].attempts >= 3

\* C12: no segment is handed to uploadChunkImmediately after recording_stopped
\* was emitted for its run: the stopped report comes after the final handoff.
C12_StoppedAfterFinalHandoff ==
  \A i \in DOMAIN uploads : ~uploads[i].afterStopped

\* C13: the completion toast of a stop is shown only when every segment of
\* that run that was handed to upload has been uploaded: none is pending and
\* none has failed.
C13_CompletionAfterUploads ==
  [][\A t \in completionTimers \ completionTimers' :
       \A i \in DOMAIN uploads :
         uploads[i].run = t.run => uploads[i].status = "uploaded"]_vars

\* C14: when a slice ends without a usable payload (nothing is handed to
\* upload for it) the record loop halts: the step schedules no next recorder.
C14_DroppedSliceHaltsLoop ==
  [][hist'.dropped > hist.dropped => restartTimers' \subseteq restartTimers]_vars

\* C15: when the countdown of a start-recording ends on a page that holds a
\* local stream, that step starts a chunk recorder (the first thing needed
\* for a segment to reach upload).
C15_StartBroadcastStartsRecorder ==
  [][(hist'.run > hist.run /\ localStreamRef # NoStream) =>
       /\ Len(recorders') = Len(recorders) + 1
       /\ recorders'[Len(recorders')].state = "recording"]_vars

\* C21: a page whose every getUserMedia call has failed (initializeRoom ran,
\* no stream was ever acquired) is not put into the Recording state by a
\* start-recording event.
C21_NoRecordingAfterMediaFailure ==
  [][(hist.inits >= 1 /\ nStreams = 0 /\ ~isRecording) => ~isRecording']_vars

\* C22: at most one MediaRecorder of the page is capturing at any time.
C22_OneRecorderCapturing ==
  Cardinality({r \in DOMAIN recorders : recorders[r].state = "recording"}) <= 1

\* C24: once stopRecording has been called, no recorder is started until the
\* next start-recording has run its course: no restart timer left behind
\* begins a new slice.
C24_NoCaptureAfterStop ==
  [][(hist.runStops >= 1 /\ hist'.runStops >= 1) =>
       Len(recorders') = Len(recorders)]_vars

\* C27: at most one acquired stream has live tracks at any time.
C27_OneLiveStream == Cardinality(liveStreams) <= 1

\* C30: the failure report of a transfer unit names that unit's chunk_index.
C30_FailureNamesFailedSegment ==
  \A i \in DOMAIN uploads :
    uploads[i].status = "failed" => uploads[i].reported = uploads[i].chunk_index

\* C37: when stopRecording ran while the countdown of a start-recording was
\* pending and no start-recording has arrived since, the end of that
\* countdown starts no recorder.
C37_StopCancelsCountdown ==
  [][\A c \in countdowns \ countdowns' :
       (/\ hist'.run > hist.run
        /\ hist.stopStarts >= c.id
        /\ hist.starts = hist.stopStarts) =>
         Len(recorders') = Len(recorders)]_vars

\* C38: no two segments that the page has uploaded carry the same
\* chunk_index.
C38_ChunkIndexUnique ==
  \A i, j \in DOMAIN uploads :
    (i # j /\ uploads[i].status = "uploaded" /\ uploads[j].status = "uploaded") =>
      uploads[i].chunk_index # uploads[j].chunk_index

\* C9: while some upload is pending or has failed the recorder loop is not
\* held up: the stop task of a stopped recorder, a due slice timer and a due
\* restart timer can all run
C9_CaptureNeverWaitsForUpload ==
  (\E i \in DOMAIN uploads : uploads[i].status \in {"pending", "failed"}) =>
    /\ \A r \in DOMAIN recorders :
         /\ recorders[r].pending => ENABLED (\E d \in BOOLEAN : RecorderStopped(r, d))
         /\ (recorders[r].timer /\ now >= recorders[r].due) => ENABLED SliceTimerFires(r)
    /\ \A t \in restartTimers :
         (now >= t.due /\ RoomFor(t.cap)) => ENABLED RestartTimerFires(t)

\* segment 1 is still pending, segment 2 was handed over meanwhile and the
\* next slice is being captured
C9_Witness ==
  /\ Len(uploads) >= 2
  /\ uploads[1].status = "pending"
  /\ uploads[2].session = uploads[1].session
  /\ \E r \in DOMAIN recorders : recorders[r].state = "recording"
====
